---- MODULE Spec2Model ----
(***************************************************************************)
(* Stanverse chatbot (qachatbot.py): the session message list, the         *)
(* streaming chat handler and the JSON-file history store.                 *)
(*                                                                         *)
(* Text is a sequence of characters.  The history file is a sequence of    *)
(* JSON tokens, so that a file cut short by a crash is a proper prefix of  *)
(* a document and json.load has something to reject.                       *)
(***************************************************************************)
EXTENDS Naturals, Sequences, FiniteSets, TLC

(* ---------------- bounds of the model ---------------- *)
\* most handler runs (submits and clears) in one behaviour
MaxOps == 2
\* most fragments one provider stream yields
MaxFrags == 2

(* ---------------- program constants ---------------- *)
USER_ID == "aks_jaiswal_user_12345"
\* a second key of the whole-store mapping (the file holds all users)
OTHER_ID == "other_user"
\* the cursor mark the handler appends to the partial text it shows ("▌")
Cursor == "cursor"

\* what the user can type, and what the provider can yield as one chunk
Utterances == { <<"h">> }
Fragments == { <<"x">>, <<"y">> }

(* ---------------- messages ---------------- *)
\* langchain_core.messages.HumanMessage / AIMessage
HumanMessage(c) == [type |-> "Human", content |-> c]
AIMessage(c) == [type |-> "AI", content |-> c]
\* the {"role", "content"} dict of the file
Dict(r, c) == [role |-> r, content |-> c]

(* ---------------- JSON text: json.dump / json.load ---------------- *)
Tok(t, v) == [t |-> t, v |-> v]
LBRACE == Tok("{", <<>>)
RBRACE == Tok("}", <<>>)
LBRACK == Tok("[", <<>>)
RBRACK == Tok("]", <<>>)
Key(k) == Tok("key", <<k>>)
Str(s) == Tok("str", s)

RECURSIVE Flatten(_)
\* the concatenation of a sequence of sequences, in order
Flatten(ss) == IF ss = <<>> THEN <<>> ELSE Head(ss) \o Flatten(Tail(ss))

\* one message dict as JSON text
DumpMsg(m) ==
  << LBRACE, Key("role"), Str(<<m.role>>), Key("content"), Str(m.content), RBRACE >>

\* a list of message dicts as JSON text
DumpList(l) ==
  <<LBRACK>> \o Flatten([i \in 1..Len(l) |-> DumpMsg(l[i])]) \o <<RBRACK>>

\* the order in which the keys of the mapping are written
KeyOrder == << OTHER_ID, USER_ID >>

\* json.dump of a Python value: a dict user -> list, or a bare list
json_dump(v) ==
  IF v.kind = "list" THEN DumpList(v.val)
  ELSE <<LBRACE>>
       \o Flatten([i \in 1..Len(KeyOrder) |->
             IF KeyOrder[i] \in DOMAIN v.val
             THEN <<Key(KeyOrder[i])>> \o DumpList(v.val[KeyOrder[i]])
             ELSE <<>>])
       \o <<RBRACE>>

ParseFail == [ok |-> FALSE, val |-> <<>>, next |-> 0]

RECURSIVE ParseMsgs(_, _, _)
\* the message dicts from token i up to the closing bracket
ParseMsgs(toks, i, acc) ==
  IF i > Len(toks) THEN ParseFail
  ELSE IF toks[i] = RBRACK THEN [ok |-> TRUE, val |-> acc, next |-> i + 1]
  ELSE IF /\ i + 5 <= Len(toks)
          /\ toks[i] = LBRACE
          /\ toks[i+1] = Key("role")
          /\ toks[i+2].t = "str" /\ Len(toks[i+2].v) = 1
          /\ toks[i+3] = Key("content")
          /\ toks[i+4].t = "str"
          /\ toks[i+5] = RBRACE
       THEN ParseMsgs(toks, i + 6,
                      Append(acc, Dict(toks[i+2].v[1], toks[i+4].v)))
       ELSE ParseFail

\* d with key k bound to v (Python's d[k] = v)
SetItem(d, k, v) == [x \in DOMAIN d \cup {k} |-> IF x = k THEN v ELSE d[x]]

EmptyDict == [x \in {} |-> <<>>]

RECURSIVE ParseEntries(_, _, _)
\* the key : list entries from token i up to the closing brace
ParseEntries(toks, i, acc) ==
  IF i > Len(toks) THEN ParseFail
  ELSE IF toks[i] = RBRACE THEN [ok |-> TRUE, val |-> acc, next |-> i + 1]
  ELSE IF /\ i + 1 <= Len(toks)
          /\ toks[i].t = "key"
          /\ toks[i+1] = LBRACK
       THEN LET r == ParseMsgs(toks, i + 2, <<>>)
            IN IF r.ok THEN ParseEntries(toks, r.next, SetItem(acc, toks[i].v[1], r.val))
               ELSE ParseFail
       ELSE ParseFail

\* json.load: [ok, kind, val]; ok = FALSE is JSONDecodeError (empty text,
\* text cut short, text after the document)
json_load(toks) ==
  IF toks = <<>> THEN [ok |-> FALSE, kind |-> "none", val |-> <<>>]
  ELSE IF toks[1] = LBRACE
       THEN LET r == ParseEntries(toks, 2, EmptyDict)
            IN IF r.ok /\ r.next = Len(toks) + 1
               THEN [ok |-> TRUE, kind |-> "dict", val |-> r.val]
               ELSE [ok |-> FALSE, kind |-> "none", val |-> <<>>]
  ELSE IF toks[1] = LBRACK
       THEN LET r == ParseMsgs(toks, 2, <<>>)
            IN IF r.ok /\ r.next = Len(toks) + 1
               THEN [ok |-> TRUE, kind |-> "list", val |-> r.val]
               ELSE [ok |-> FALSE, kind |-> "none", val |-> <<>>]
  ELSE [ok |-> FALSE, kind |-> "none", val |-> <<>>]

(* ---------------- the history file ---------------- *)
\* HISTORY_FILE on disk: whether it exists, and its text
NoFile == [exists |-> FALSE, toks |-> <<>>]
FileOf(toks) == [exists |-> TRUE, toks |-> toks]

\* open(HISTORY_FILE, 'r') succeeds / open(HISTORY_FILE, 'w') succeeds
CanRead(p) == p \in {"rw", "ro"}
CanWrite(p) == p = "rw"

\* the try block of load_history: raised when open, json.load or .get
\* raises; val is what the block returns (nothing when the file is absent)
load_try(f, p) ==
  IF ~f.exists THEN [raised |-> FALSE, returned |-> FALSE, val |-> <<>>]
  ELSE IF ~CanRead(p) THEN [raised |-> TRUE, returned |-> FALSE, val |-> <<>>]
  ELSE LET r == json_load(f.toks)
       IN IF r.ok /\ r.kind = "dict"
          THEN [raised |-> FALSE, returned |-> TRUE,
                val |-> IF USER_ID \in DOMAIN r.val THEN r.val[USER_ID] ELSE <<>>]
          ELSE [raised |-> TRUE, returned |-> FALSE, val |-> <<>>]

\* a variant without the except clause
load_escapes_uncaught(r) == r.raised

\* whether an exception of the try block reaches the caller of
\* load_history: never, "except Exception: pass"
load_escapes(r) == FALSE

\* load_history(): the user's list, [] when the file is absent, cannot be
\* opened, is no JSON document, or is no mapping (.get raises)
load_history(f, p) ==
  LET r == load_try(f, p)
  IN IF r.returned THEN r.val ELSE <<>>

(* ---------------- session helpers ---------------- *)
RECURSIVE Clean(_)
\* the hydration loop: a dict with role user / assistant becomes a
\* HumanMessage / AIMessage, a dict with any other role is skipped
Clean(l) ==
  IF l = <<>> THEN <<>>
  ELSE LET m == Head(l)
       IN IF m.role = "user" THEN <<HumanMessage(m.content)>> \o Clean(Tail(l))
          ELSE IF m.role = "assistant" THEN <<AIMessage(m.content)>> \o Clean(Tail(l))
          ELSE Clean(Tail(l))

\* the list comprehension that turns the session messages into dicts
Serializable(msgs) ==
  [i \in 1..Len(msgs) |->
     Dict(IF msgs[i].type = "Human" THEN "user" ELSE "assistant", msgs[i].content)]

\* a variant that keeps an utterance already present only once
AppendUserDedup(msgs, q) ==
  IF \E i \in 1..Len(msgs) : msgs[i] = HumanMessage(q)
  THEN msgs ELSE Append(msgs, HumanMessage(q))

\* st.session_state.messages.append(HumanMessage(content=question))
AppendUser(msgs, q) == Append(msgs, HumanMessage(q))

\* a variant that forgets the slice
HistoryWithQuestion(msgs) == msgs

\* st.session_state.messages[:-1]
HistoryForLlm(msgs) == SubSeq(msgs, 1, Len(msgs) - 1)

\* a variant that puts the new chunk in front
AccumulatePrepend(full, chunk) == chunk \o full

\* full_response += chunk
Accumulate(full, chunk) == full \o chunk

\* message_placeholder.markdown(full_response + cursor)
Partial(full) == full \o <<Cursor>>

\* a variant that does not read the store before it writes
save_prepare_fresh(f, p, arg) ==
  IF CanWrite(p)
  THEN [ok |-> TRUE,
        text |-> json_dump([kind |-> "dict", val |-> SetItem(EmptyDict, USER_ID, arg)])]
  ELSE [ok |-> FALSE, text |-> <<>>]

\* the part of save_history before the file is rewritten: read the whole
\* store, bind the user's key, open for writing.  ok = FALSE when any of
\* these raises; text is what json.dump will write
save_prepare(f, p, arg) ==
  LET all == IF f.exists
             THEN IF CanRead(p) THEN json_load(f.toks)
                  ELSE [ok |-> FALSE, kind |-> "none", val |-> <<>>]
             ELSE [ok |-> TRUE, kind |-> "dict", val |-> EmptyDict]
  IN IF all.ok /\ all.kind = "dict" /\ CanWrite(p)
     THEN [ok |-> TRUE,
           text |-> json_dump([kind |-> "dict", val |-> SetItem(all.val, USER_ID, arg)])]
     ELSE [ok |-> FALSE, text |-> <<>>]

\* a variant without the try / except
save_raises_uncaught(r) == TRUE

\* whether a failure inside save_history reaches its caller: never, the
\* body is wrapped in try / except Exception
save_raises(r) == FALSE

\* a variant that builds the chain whatever the key
get_chain_always(k) == "chain"

\* get_chain: None when the API key is empty
get_chain(k) == IF k = "" THEN "None" ELSE "chain"

\* the value the key field starts with, and the values it can be given
DefaultKey == "gsk"
Keys == { "", DefaultKey }

(* ---------------- state ---------------- *)
VARIABLES
  file,          \* HISTORY_FILE
  perm,          \* what the file system lets the process do with it
  pc,            \* where the script is: start, idle, streaming, save_write
  messages,      \* st.session_state.messages
  full_response, \* the running buffer of the chat handler
  shown,         \* the text in message_placeholder
  request,       \* the argument of chain.stream
  errorShown,    \* st.error was called in this run
  log,           \* printed lines
  pending,       \* text json.dump has not yet written
  saveArg,       \* the argument of the save_history call in progress or last made
  saveStatus,    \* none, writing, ok, failed
  saveStartFile, \* the file when that call began
  lastOp,        \* the handler that ran last: none, hydrate, submit, failed, completed, clear
  pre,           \* messages when the last submit began
  preFile,       \* the file when the last submit began
  frags,         \* the fragments the provider yielded in this stream
  partials,      \* the partial texts shown in this stream
  crashedInSave, \* the previous process died while json.dump was writing
  unsaved,       \* no / pending: a completed exchange's save failed and none
                 \* succeeded since / recovered: the last save was the first to
                 \* succeed after such a failure
  ops,           \* handler runs (submits and clears) so far
  api_key,       \* the GROQ API Key field of the sidebar
  tracked,       \* every message of the session list was added by a handler
                 \* of this session (it started empty or was cleared)
  failedTurns,   \* positions of the user turns whose stream raised
  other,         \* a second session on the same file: hydrated, its
                 \* messages, the list its last successful save wrote
  lastSaver      \* the session whose save_history wrote the file last

vars == << file, perm, pc, messages, full_response, shown, request, errorShown,
           log, pending, saveArg, saveStatus, saveStartFile, lastOp, pre,
           preFile, frags, partials, crashedInSave, unsaved, ops, api_key,
           tracked, failedTurns, other, lastSaver >>

\* tokens one flush of the file buffer puts on disk
BufSize == 6

(* ---------------- initial stores ---------------- *)
StoreOf(d) == FileOf(json_dump([kind |-> "dict", val |-> d]))

InitialStores ==
  { NoFile,
    FileOf(<<>>),
    StoreOf(EmptyDict),
    StoreOf(SetItem(EmptyDict, USER_ID,
                    << Dict("user", <<"h">>), Dict("assistant", <<"x">>) >>)),
    StoreOf(SetItem(EmptyDict, OTHER_ID, << Dict("user", <<"w">>) >>)),
    FileOf(json_dump([kind |-> "list", val |-> <<>>])) }

NoRequest == [question |-> <<>>, history |-> <<>>]

\* the second session before its first run
NoOther == [hydrated |-> FALSE, msgs |-> <<>>, saved |-> <<>>]

\* a fresh process: no session state yet
InitSession ==
  /\ pc = "start"
  /\ messages = <<>>
  /\ full_response = <<>>
  /\ shown = <<>>
  /\ request = NoRequest
  /\ errorShown = FALSE
  /\ log = <<>>
  /\ pending = <<>>
  /\ saveArg = <<>>
  /\ saveStatus = "none"
  /\ saveStartFile = NoFile
  /\ lastOp = "none"
  /\ pre = <<>>
  /\ preFile = NoFile
  /\ frags = <<>>
  /\ partials = {}
  /\ crashedInSave = FALSE
  /\ unsaved = "no"
  /\ ops = 0
  /\ api_key = DefaultKey
  /\ tracked = FALSE
  /\ failedTurns = {}
  /\ other = NoOther
  /\ lastSaver = "none"

Init ==
  /\ file \in InitialStores
  /\ perm = "rw"
  /\ InitSession

(* ---------------- actions ---------------- *)
\* first run of a session: "messages" not in st.session_state
Hydrate ==
  /\ pc = "start"
  /\ LET r == load_try(file, perm)
     IN IF r.raised /\ load_escapes(r)
        THEN \* the run dies with the exception on the page
             /\ messages' = messages
             /\ pc' = pc
             /\ errorShown' = TRUE
             /\ tracked' = tracked
        ELSE /\ messages' = Clean(load_history(file, perm))
             /\ pc' = "idle"
             /\ errorShown' = errorShown
             /\ tracked' = (messages' = <<>>)
  /\ lastOp' = "hydrate"
  /\ failedTurns' = {}
  /\ UNCHANGED << file, perm, full_response, shown, request, log,
                  pending, saveArg, saveStatus, saveStartFile, pre, preFile,
                  frags, partials, crashedInSave, unsaved, ops, api_key,
                  other, lastSaver >>

\* a variant that writes the stored record followed by the list it is
\* given whenever the stored record is not the beginning of that list
SaveCallMerging(arg) ==
  LET stored == load_history(file, perm)
      merged == IF Len(stored) <= Len(arg) /\ stored = SubSeq(arg, 1, Len(stored))
                THEN arg ELSE stored \o arg
      r == save_prepare(file, perm, merged)
  IN /\ saveArg' = arg
     /\ saveStartFile' = file
     /\ errorShown' = (~r.ok /\ save_raises(r))
     /\ IF r.ok
        THEN /\ file' = FileOf(<<>>)
             /\ pending' = r.text
             /\ pc' = "save_write"
             /\ saveStatus' = "writing"
             /\ log' = log
        ELSE /\ file' = file
             /\ pending' = <<>>
             /\ pc' = "idle"
             /\ saveStatus' = "failed"
             /\ log' = <<"Error saving history">>

\* a call save_history(arg) made from a handler, up to the first flush
SaveCall(arg) ==
  LET r == save_prepare(file, perm, arg)
  IN /\ saveArg' = arg
     /\ saveStartFile' = file
     /\ errorShown' = (~r.ok /\ save_raises(r))
     /\ IF r.ok
        THEN /\ file' = FileOf(<<>>)
             /\ pending' = r.text
             /\ pc' = "save_write"
             /\ saveStatus' = "writing"
             /\ log' = log
        ELSE /\ file' = file
             /\ pending' = <<>>
             /\ pc' = "idle"
             /\ saveStatus' = "failed"
             /\ log' = <<"Error saving history">>

\* json.dump writing, one flush at a time; the last flush closes the file
SaveWrite ==
  /\ pc = "save_write"
  /\ LET n == IF Len(pending) < BufSize THEN Len(pending) ELSE BufSize
     IN /\ file' = FileOf(file.toks \o SubSeq(pending, 1, n))
        /\ pending' = SubSeq(pending, n + 1, Len(pending))
        /\ IF n = Len(pending)
           THEN /\ pc' = "idle"
                /\ saveStatus' = "ok"
                /\ unsaved' = IF unsaved = "pending" THEN "recovered" ELSE "no"
                /\ lastSaver' = "A"
           ELSE /\ pc' = "save_write"
                /\ saveStatus' = saveStatus
                /\ unsaved' = unsaved
                /\ lastSaver' = lastSaver
  /\ UNCHANGED << perm, messages, full_response, shown, request, errorShown, log,
                  saveArg, saveStartFile, lastOp, pre, preFile, frags, partials,
                  crashedInSave, ops, api_key, tracked, failedTurns, other >>

\* a variant of the Clear Chat button that forgets the file
ClearSessionOnly ==
  /\ pc = "idle"
  /\ ops < MaxOps
  /\ ops' = ops + 1
  /\ messages' = <<>>
  /\ lastOp' = "clear"
  /\ unsaved' = "no"
  /\ full_response' = <<>>
  /\ shown' = <<>>
  /\ request' = NoRequest
  /\ pre' = <<>>
  /\ preFile' = NoFile
  /\ frags' = <<>>
  /\ partials' = {}
  /\ saveStatus' = "ok"
  /\ saveStartFile' = file
  /\ saveArg' = <<>>
  /\ tracked' = TRUE
  /\ failedTurns' = {}
  /\ UNCHANGED << file, perm, pc, errorShown, log, pending, crashedInSave,
                  api_key, other, lastSaver >>

\* the Clear Chat button
Clear ==
  /\ pc = "idle"
  /\ ops < MaxOps
  /\ ops' = ops + 1
  /\ messages' = <<>>
  /\ SaveCall(<<>>)
  /\ lastOp' = "clear"
  /\ unsaved' = "no"
  /\ full_response' = <<>>
  /\ shown' = <<>>
  /\ request' = NoRequest
  /\ pre' = <<>>
  /\ preFile' = NoFile
  /\ frags' = <<>>
  /\ partials' = {}
  /\ tracked' = TRUE
  /\ failedTurns' = {}
  /\ UNCHANGED << perm, crashedInSave, api_key, other, lastSaver >>

\* st.chat_input returned q: the user turn is appended and the stream is opened
Submit(q) ==
  /\ pc = "idle"
  /\ get_chain(api_key) # "None"
  /\ ops < MaxOps
  /\ ops' = ops + 1
  /\ LET appended == AppendUser(messages, q)
     IN /\ messages' = appended
        /\ request' = [question |-> q, history |-> HistoryForLlm(appended)]
  /\ full_response' = <<>>
  /\ shown' = <<>>
  /\ errorShown' = FALSE
  /\ pc' = "streaming"
  /\ lastOp' = "submit"
  /\ pre' = messages
  /\ preFile' = file
  /\ frags' = <<>>
  /\ partials' = {}
  /\ unsaved' = IF unsaved = "recovered" THEN "no" ELSE unsaved
  /\ UNCHANGED << file, perm, log, pending, saveArg, saveStatus, saveStartFile,
                  crashedInSave, api_key, tracked, failedTurns, other, lastSaver >>

\* a variant that puts the text received so far into the session list
FragmentCommits(c) ==
  /\ pc = "streaming"
  /\ Len(frags) < MaxFrags
  /\ full_response' = Accumulate(full_response, c)
  /\ shown' = Partial(full_response')
  /\ frags' = Append(frags, c)
  /\ partials' = partials \cup {shown'}
  /\ messages' = Append(messages, AIMessage(full_response'))
  /\ UNCHANGED << file, perm, pc, request, errorShown, log, pending,
                  saveArg, saveStatus, saveStartFile, lastOp, pre, preFile,
                  crashedInSave, unsaved, ops, api_key, tracked, failedTurns,
                  other, lastSaver >>

\* one chunk of chain.stream
Fragment(c) ==
  /\ pc = "streaming"
  /\ Len(frags) < MaxFrags
  /\ full_response' = Accumulate(full_response, c)
  /\ shown' = Partial(full_response')
  /\ frags' = Append(frags, c)
  /\ partials' = partials \cup {shown'}
  /\ UNCHANGED << file, perm, pc, messages, request, errorShown, log, pending,
                  saveArg, saveStatus, saveStartFile, lastOp, pre, preFile,
                  crashedInSave, unsaved, ops, api_key, tracked, failedTurns,
                  other, lastSaver >>

\* a variant of the except branch that keeps the text received so far
StreamErrorKeepsPartial ==
  /\ pc = "streaming"
  /\ errorShown' = TRUE
  /\ messages' = Append(messages, AIMessage(full_response))
  /\ full_response' = <<>>
  /\ pc' = "idle"
  /\ lastOp' = "failed"
  /\ failedTurns' = failedTurns \cup {Len(messages)}
  /\ UNCHANGED << file, perm, shown, request, log, pending, saveArg,
                  saveStatus, saveStartFile, pre, preFile, frags, partials,
                  crashedInSave, unsaved, ops, api_key, tracked, other,
                  lastSaver >>

\* a variant of the except branch that takes the user turn back
StreamErrorDropsTurn ==
  /\ pc = "streaming"
  /\ errorShown' = TRUE
  /\ messages' = SubSeq(messages, 1, Len(messages) - 1)
  /\ full_response' = <<>>
  /\ pc' = "idle"
  /\ lastOp' = "failed"
  /\ failedTurns' = failedTurns \cup {Len(messages)}
  /\ UNCHANGED << file, perm, shown, request, log, pending, saveArg,
                  saveStatus, saveStartFile, pre, preFile, frags, partials,
                  crashedInSave, unsaved, ops, api_key, tracked, other,
                  lastSaver >>

\* chain.stream raised: the except branch of the handler
StreamError ==
  /\ pc = "streaming"
  /\ errorShown' = TRUE
  /\ full_response' = <<>>
  /\ pc' = "idle"
  /\ lastOp' = "failed"
  /\ failedTurns' = failedTurns \cup {Len(messages)}
  /\ UNCHANGED << file, perm, messages, shown, request, log, pending, saveArg,
                  saveStatus, saveStartFile, pre, preFile, frags, partials,
                  crashedInSave, unsaved, ops, api_key, tracked, other,
                  lastSaver >>

\* a variant that takes a stream without text for a failure
StreamCompleteSkipsEmpty ==
  IF full_response = <<>>
  THEN /\ pc = "streaming"
       /\ errorShown' = TRUE
       /\ pc' = "idle"
       /\ lastOp' = "completed"
       /\ UNCHANGED << file, perm, messages, full_response, shown, request, log,
                       pending, saveArg, saveStatus, saveStartFile, pre,
                       preFile, frags, partials, crashedInSave, unsaved, ops,
                       api_key, tracked, failedTurns, other, lastSaver >>
  ELSE /\ pc = "streaming"
       /\ shown' = full_response
       /\ messages' = Append(messages, AIMessage(full_response))
       /\ SaveCall(Serializable(messages'))
       /\ unsaved' = IF save_prepare(file, perm, Serializable(messages')).ok
                     THEN unsaved ELSE "pending"
       /\ lastOp' = "completed"
       /\ UNCHANGED << perm, full_response, request, pre, preFile, frags,
                       partials, crashedInSave, ops, api_key, tracked,
                       failedTurns, other, lastSaver >>

\* chain.stream is exhausted: final text, assistant turn, save
StreamComplete ==
  /\ pc = "streaming"
  /\ shown' = full_response
  /\ messages' = Append(messages, AIMessage(full_response))
  /\ SaveCall(Serializable(messages'))
  /\ unsaved' = IF save_prepare(file, perm, Serializable(messages')).ok
                THEN unsaved ELSE "pending"
  /\ lastOp' = "completed"
  /\ UNCHANGED << perm, full_response, request, pre, preFile, frags, partials,
                  crashedInSave, ops, api_key, tracked, failedTurns, other,
                  lastSaver >>

\* the process dies (at any point) and a new one is started: the session
\* state is gone, the file is what it was
Restart ==
  /\ pc # "start"
  /\ crashedInSave' = (pc = "save_write")
  /\ saveArg' = IF pc = "save_write" THEN saveArg ELSE <<>>
  /\ saveStartFile' = IF pc = "save_write" THEN saveStartFile ELSE NoFile
  /\ saveStatus' = "none"
  /\ log' = <<>>
  /\ pc' = "start"
  /\ messages' = <<>>
  /\ full_response' = <<>>
  /\ shown' = <<>>
  /\ request' = NoRequest
  /\ errorShown' = FALSE
  /\ pending' = <<>>
  /\ lastOp' = "none"
  /\ pre' = <<>>
  /\ preFile' = NoFile
  /\ frags' = <<>>
  /\ partials' = {}
  /\ unsaved' = "no"
  /\ tracked' = FALSE
  /\ failedTurns' = {}
  /\ lastSaver' = "none"
  /\ UNCHANGED << file, perm, ops, api_key, other >>

\* the file system starts or stops refusing to open the file
Chmod(p) ==
  /\ pc = "idle"
  /\ p # perm
  /\ perm' = p
  /\ UNCHANGED << file, pc, messages, full_response, shown, request, errorShown,
                  log, pending, saveArg, saveStatus, saveStartFile, lastOp, pre,
                  preFile, frags, partials, crashedInSave, unsaved, ops, api_key,
                  tracked, failedTurns, other, lastSaver >>

Next ==
  \/ Hydrate
  \/ Clear
  \/ \E q \in Utterances : Submit(q)
  \/ \E c \in Fragments : Fragment(c)
  \/ StreamError
  \/ StreamComplete
  \/ SaveWrite
  \/ Restart

Spec == Init /\ [][Next]_vars

\* one process of the same program on a file system that can refuse reads
\* and writes
Perms == {"rw", "ro", "none"}

NextFault ==
  \/ Hydrate
  \/ Clear
  \/ \E q \in Utterances : Submit(q)
  \/ \E c \in Fragments : Fragment(c)
  \/ StreamError
  \/ StreamComplete
  \/ SaveWrite
  \/ \E p \in Perms : Chmod(p)

\* the stores the sessions on the faulty file system start from
FaultStores ==
  { NoFile,
    StoreOf(SetItem(EmptyDict, USER_ID,
                    << Dict("user", <<"h">>), Dict("assistant", <<"x">>) >>)) }

InitFault ==
  /\ file \in FaultStores
  /\ perm \in Perms
  /\ InitSession

SpecFault == InitFault /\ [][NextFault]_vars

(* ---------------- properties ---------------- *)
\* the persisted record of the user: what load_history reads from file f
Record(f) == load_history(f, "rw")

IsPrefix(a, b) == Len(a) <= Len(b) /\ a = SubSeq(b, 1, Len(a))

\* the two turns a completed exchange adds
Exchange == << HumanMessage(request.question), AIMessage(Flatten(frags)) >>

\* C1: when the stream raises, before or after any fragment, the session
\* list is the list before the submit plus the user turn only, and the file
\* is exactly what it was before the submit (no save ran).
C1_Rollback ==
  lastOp = "failed" =>
    /\ pc = "idle"
    /\ messages = Append(pre, HumanMessage(request.question))
    /\ file = preFile
    /\ pending = <<>>

C1_Witness ==
  /\ lastOp = "failed"
  /\ frags # <<>>
  /\ pre # <<>>
  /\ Record(file) # <<>>

\* C2: when the stream completes, the session list is the list before the
\* submit followed by the user turn and the assistant turn with the whole
\* response, in that order; nothing earlier is changed, also when the
\* utterance repeats an earlier one.
C2_AppendOnly ==
  lastOp = "completed" => messages = pre \o Exchange

C2_Witness ==
  /\ lastOp = "completed"
  /\ pc = "idle"
  /\ \E i \in 1..Len(pre) : pre[i] = HumanMessage(request.question)

\* C3 (as claimed): after every completed exchange the persisted record
\* equals the whole session list as role/content pairs, whatever store the
\* session started from.
C3_PersistedIsSession ==
  (lastOp = "completed" /\ pc = "idle") => Record(file) = Serializable(messages)

\* C4: after the clear action the session list is empty and the persisted
\* record is empty, so a new process loads and hydrates nothing.
C4_ClearDurable ==
  lastOp = "clear" =>
    /\ messages = <<>>
    /\ Record(file) = <<>>
    /\ Clean(load_history(file, perm)) = <<>>

C4_Witness ==
  /\ lastOp = "clear"
  /\ pc = "idle"
  /\ saveStatus = "ok"
  /\ Len(Record(saveStartFile)) >= 2

\* C5 (as claimed): after save_history(H) has returned, load_history
\* returns H, for every H.
C5_RoundTrip ==
  (pc = "idle" /\ saveStatus \in {"ok", "failed"}) => Record(file) = saveArg

\* C6 (as claimed): from an absent store and from an existing empty store
\* load returns the empty list, and after save_history(H) has returned load
\* returns H.
C6_AbsentOrEmptyStore ==
  ( /\ pc = "idle"
    /\ saveStatus \in {"ok", "failed"}
    /\ saveStartFile \in {NoFile, FileOf(<<>>)} )
  => /\ Record(saveStartFile) = <<>>
     /\ Record(file) = saveArg

\* C7 (as claimed): when the process dies during save_history(H), load
\* afterwards returns the record from before the save or H.
C7_SaveAtomic ==
  crashedInSave => Record(file) \in {Record(saveStartFile), saveArg}

\* C8: the history handed to the provider is the session list as it was
\* just before the submit, and the utterance is handed over separately as
\* the question; the utterance's own turn is not in the history.
C8_PromptHistory ==
  lastOp \in {"submit", "failed", "completed"} =>
    /\ request.history = pre
    /\ Len(messages) > Len(pre)
    /\ messages[Len(pre) + 1] = HumanMessage(request.question)

C8_Witness ==
  /\ lastOp = "submit"
  /\ Len(pre) >= 2
  /\ pre[Len(pre)].type = "Human"
  /\ request.history = pre

\* the content of the assistant turn of the exchange just completed
Answer == messages[Len(messages)].content

\* what C9 says of the stored text: the assistant turn in the session list,
\* in the list handed to save_history and, once written, in the file, is
\* the concatenation of the fragments in the order they came
StoredIsConcatenation ==
  /\ messages[Len(messages)] = AIMessage(Flatten(frags))
  /\ saveArg[Len(saveArg)] = Dict("assistant", Flatten(frags))
  /\ (pc = "idle" /\ saveStatus = "ok") =>
       /\ Record(file) # <<>>
       /\ Record(file)[Len(Record(file))] = Dict("assistant", Flatten(frags))

\* C9 (as claimed): the stored text is the concatenation, and every partial
\* text shown while streaming is a prefix of it.
C9_PartialsArePrefixes ==
  lastOp = "completed" =>
    /\ StoredIsConcatenation
    /\ \A p \in partials : IsPrefix(p, Answer)

\* C9 (amended): the stored text is the concatenation; every partial text
\* shown while streaming is a prefix of it followed by the cursor mark, and
\* the last text shown is the stored text itself.
C9_Reconstruction ==
  /\ lastOp = "completed" =>
       /\ StoredIsConcatenation
       /\ \A p \in partials :
            \E n \in 0..Len(Answer) : p = SubSeq(Answer, 1, n) \o <<Cursor>>
       /\ shown = Answer
  /\ (pc = "streaming" /\ frags # <<>>) => shown = Flatten(frags) \o <<Cursor>>

C9_Witness ==
  /\ lastOp = "completed"
  /\ pc = "idle"
  /\ saveStatus = "ok"
  /\ Len(frags) = 2
  /\ frags[1] # frags[2]
  /\ Cardinality(partials) = 2

\* C10: when the save after a completed exchange fails, the handler ends
\* without an error, the session list holds both turns of the exchange, and
\* the next save that succeeds writes the whole session list, the turns
\* whose save failed included.
C10_SaveFailure ==
  /\ (lastOp = "completed" /\ saveStatus = "failed") =>
       /\ pc = "idle"
       /\ ~errorShown
       /\ messages = pre \o Exchange
  /\ (lastOp = "completed" /\ saveStatus = "ok" /\ pc = "idle") =>
       Record(file) = Serializable(messages)

C10_Witness ==
  /\ lastOp = "completed"
  /\ pc = "idle"
  /\ unsaved = "recovered"
  /\ Len(messages) >= 4
  /\ Record(file) = Serializable(messages)

(* ---------------- the first run on any store ---------------- *)
\* every text a crash can leave of a document: its proper prefixes
Truncations(toks) == { SubSeq(toks, 1, n) : n \in 1..(Len(toks) - 1) }

GoodRecord == << Dict("user", <<"h">>), Dict("assistant", <<"x">>) >>

\* whole-store mappings: no key, the user's key, another user's key only,
\* roles in any order, a role the program never writes, an empty record
LoadDicts ==
  { EmptyDict,
    SetItem(EmptyDict, USER_ID, GoodRecord),
    SetItem(EmptyDict, OTHER_ID, << Dict("user", <<"w">>) >>),
    SetItem(SetItem(EmptyDict, OTHER_ID, << Dict("user", <<"w">>) >>), USER_ID,
            << Dict("assistant", <<"x">>), Dict("user", <<"h">>),
               Dict("user", <<"h">>) >>),
    SetItem(EmptyDict, USER_ID,
            << Dict("user", <<"h">>), Dict("system", <<"s">>),
               Dict("assistant", <<"x">>) >>),
    SetItem(EmptyDict, USER_ID, <<>>) }

\* what HISTORY_FILE can be when a session starts
LoadStores ==
  { NoFile,
    FileOf(<<>>),
    FileOf(json_dump([kind |-> "list", val |-> GoodRecord])),
    FileOf(StoreOf(EmptyDict).toks \o <<RBRACE>>) }
  \cup { StoreOf(d) : d \in LoadDicts }
  \cup { FileOf(t) :
           t \in Truncations(StoreOf(SetItem(EmptyDict, USER_ID, GoodRecord)).toks) }

InitLoad ==
  /\ file \in LoadStores
  /\ perm \in Perms
  /\ InitSession

NextLoad == Hydrate

SpecLoad == InitLoad /\ [][NextLoad]_vars

\* C11: load_history never raises to its caller: the first run always ends
\* with a hydrated session and no error on the page; it returns the empty
\* list when the file is absent, cannot be opened, is no JSON document, is
\* no mapping, or is a mapping without USER_ID, and the stored list of
\* USER_ID when the file is a mapping that has it.
C11_LoadTotal ==
  lastOp = "hydrate" =>
    /\ pc = "idle"
    /\ ~errorShown
    /\ LET v == load_history(file, perm)
       IN /\ messages = Clean(v)
          /\ (~file.exists \/ ~CanRead(perm)) => v = <<>>
          /\ (file \notin { StoreOf(d) : d \in LoadDicts }) => v = <<>>
          /\ \A d \in LoadDicts :
               (file = StoreOf(d) /\ CanRead(perm)) =>
                 v = IF USER_ID \in DOMAIN d THEN d[USER_ID] ELSE <<>>

\* a first run on a file cut short by a crash
C11_Witness ==
  /\ lastOp = "hydrate"
  /\ pc = "idle"
  /\ file.exists
  /\ file.toks # <<>>
  /\ CanRead(perm)
  /\ load_try(file, perm).raised
  /\ messages = <<>>

\* the mapping a file held when a save that succeeded read it ({} when
\* the file was absent)
MappingOf(f) == IF f.exists THEN json_load(f.toks).val ELSE EmptyDict

\* C12: a save that succeeded replaced only the record of USER_ID: the file
\* is a mapping with the keys it had plus USER_ID, USER_ID is bound to the
\* list given to save_history, and every other key is bound to the list it
\* was bound to before the save.
C12_OtherUsersIntact ==
  (saveStatus = "ok" /\ pc = "idle") =>
    LET before == MappingOf(saveStartFile)
        after == json_load(file.toks)
    IN /\ after.ok /\ after.kind = "dict"
       /\ DOMAIN after.val = DOMAIN before \cup {USER_ID}
       /\ after.val[USER_ID] = saveArg
       /\ \A k \in DOMAIN before \ {USER_ID} : after.val[k] = before[k]

\* a save of a non-empty history that replaced the user's earlier record in
\* a store that also holds another user's
C12_Witness ==
  /\ saveStatus = "ok"
  /\ pc = "idle"
  /\ lastOp = "completed"
  /\ saveStartFile.exists
  /\ OTHER_ID \in DOMAIN MappingOf(saveStartFile)
  /\ USER_ID \in DOMAIN MappingOf(saveStartFile)
  /\ MappingOf(saveStartFile)[USER_ID] # saveArg
  /\ MappingOf(file)[OTHER_ID] = << Dict("user", <<"w">>) >>

(* ---------------- the API key field ---------------- *)
\* the user edits the GROQ API Key field.  A widget change reruns the
\* script; a run that is consuming the stream is stopped at its next
\* st call by a control exception that "except Exception" does not catch,
\* so the user turn stays and nothing else of that run does
SetApiKey(k) ==
  /\ pc \in {"idle", "streaming"}
  /\ k # api_key
  /\ api_key' = k
  /\ IF pc = "streaming"
     THEN /\ pc' = "idle"
          /\ full_response' = <<>>
          /\ shown' = <<>>
          /\ lastOp' = "stopped"
     ELSE UNCHANGED << pc, full_response, shown, lastOp >>
  /\ UNCHANGED << file, perm, messages, request, errorShown, log, pending,
                  saveArg, saveStatus, saveStartFile, pre, preFile, frags,
                  partials, crashedInSave, unsaved, ops, tracked, failedTurns,
                  other, lastSaver >>

NextKey ==
  \/ Hydrate
  \/ Clear
  \/ \E q \in Utterances : Submit(q)
  \/ \E c \in Fragments : Fragment(c)
  \/ StreamError
  \/ StreamComplete
  \/ SaveWrite
  \/ \E k \in Keys : SetApiKey(k)

InitKey ==
  /\ file \in FaultStores
  /\ perm = "rw"
  /\ InitSession

SpecKey == InitKey /\ [][NextKey]_vars

\* C13: while the API key is empty the session is never streaming, and a
\* step taken with the key empty before and after it starts no stream and
\* changes the request, the session list or the file only as part of a
\* clear (the button's handler and the writes of its save_history).
C13_NotReady ==
  /\ [](api_key = "" => pc # "streaming")
  /\ [][ (api_key = "" /\ api_key' = "") =>
           /\ pc' # "streaming"
           /\ (messages' # messages \/ file' # file \/ request' # request)
                => lastOp' = "clear" ]_vars

\* the key was emptied after an exchange; the history is still there
C13_Witness ==
  /\ api_key = ""
  /\ pc = "idle"
  /\ Len(messages) >= 2
  /\ Record(file) = Serializable(messages)
  /\ ops < MaxOps

\* C14: while the handler is consuming the stream, whatever the number of
\* fragments received, the session list is the list before the submit
\* plus the submitted user turn as its last message, and the file (so the
\* persisted record) is the file before the submit; the step of a fragment
\* arriving changes the buffer and the text shown and nothing else of the
\* program's state.
C14_StreamingFrame ==
  /\ [](pc = "streaming" =>
          /\ messages = Append(pre, HumanMessage(request.question))
          /\ file = preFile
          /\ Record(file) = Record(preFile))
  /\ [][ (pc = "streaming" /\ pc' = "streaming" /\ Len(frags') = Len(frags) + 1) =>
           UNCHANGED << messages, file, perm, request, errorShown, log,
                        pending, api_key >> ]_vars

\* streaming on top of a stored history, two fragments in
C14_Witness ==
  /\ pc = "streaming"
  /\ Len(frags) = 2
  /\ pre # <<>>
  /\ Record(file) = Serializable(pre)
  /\ messages = Append(pre, HumanMessage(request.question))

(* ---------------- a question typed during a stream ---------------- *)
\* st.chat_input stays on the page while the handler consumes the stream.
\* A question entered then reruns the script: the running handler is
\* stopped at its next st call (lines 239, 241) by a control exception that
\* "except Exception" does not catch, before line 245, and the new run
\* takes the question as any other
SubmitWhileStreaming(q) ==
  /\ pc = "streaming"
  /\ get_chain(api_key) # "None"
  /\ ops < MaxOps
  /\ ops' = ops + 1
  /\ LET appended == AppendUser(messages, q)
     IN /\ messages' = appended
        /\ request' = [question |-> q, history |-> HistoryForLlm(appended)]
  /\ full_response' = <<>>
  /\ shown' = <<>>
  /\ errorShown' = FALSE
  /\ pc' = "streaming"
  /\ lastOp' = "submit"
  /\ pre' = messages
  /\ preFile' = file
  /\ frags' = <<>>
  /\ partials' = {}
  /\ UNCHANGED << file, perm, log, pending, saveArg, saveStatus, saveStartFile,
                  crashedInSave, unsaved, api_key, tracked, failedTurns, other,
                  lastSaver >>

NextRerun ==
  \/ Hydrate
  \/ Clear
  \/ \E q \in Utterances : Submit(q)
  \/ \E c \in Fragments : Fragment(c)
  \/ StreamError
  \/ StreamComplete
  \/ SaveWrite
  \/ \E q \in Utterances : SubmitWhileStreaming(q)

SpecRerun == InitKey /\ [][NextRerun]_vars

\* C15: one utterance in flight: from a state in which a stream is being
\* consumed, the session list changes only by the completion of that
\* stream (no second user turn), and while the stream goes on the request
\* is the same and the fragments received only grow (no second stream).
C15_OneInFlight ==
  [][ pc = "streaming" =>
        /\ (messages' # messages => lastOp' = "completed")
        /\ (pc' = "streaming" => (request' = request /\ IsPrefix(frags, frags')))
    ]_vars

C16_KnownRolesPreserved ==
  (/\ lastOp = "hydrate"
   /\ \A i \in 1..Len(load_history(file, perm)) :
        load_history(file, perm)[i].role \in {"user", "assistant"})
    => Serializable(messages) = load_history(file, perm)

(* ---------------- one session on a working store ---------------- *)
\* one process from its first run on, the file absent or a mapping and
\* open() never refusing: every save_history succeeds
NextSession ==
  \/ Hydrate
  \/ Clear
  \/ \E q \in Utterances : Submit(q)
  \/ \E c \in Fragments : Fragment(c)
  \/ StreamError
  \/ StreamComplete
  \/ SaveWrite

SpecSession == InitKey /\ [][NextSession]_vars

\* the messages at positions from..Len(msgs) are user turns whose stream
\* raised, or the user turn of the stream being consumed
OnlyOpenUserTurns(msgs, from, upto) ==
  \A i \in from..upto :
    /\ msgs[i].type = "Human"
    /\ \/ i \in failedTurns
       \/ (pc = "streaming" /\ i = Len(msgs))

\* C17: in one session whose saves succeed the persisted record is, in
\* every state from the first run on (before it there is no session list),
\* a prefix of the session list read as role / content pairs.
\* Between handlers and during a stream the messages after that prefix are
\* user turns only, each of a submit that failed or of the one in flight.
\* While the save of an exchange is writing, the messages after the record
\* it started from are such user turns and, last, the assistant turn of
\* that exchange.
C17_PersistedPrefix ==
  /\ pc # "start" => IsPrefix(Record(file), Serializable(messages))
  /\ pc \in {"idle", "streaming"} =>
       OnlyOpenUserTurns(messages, Len(Record(file)) + 1, Len(messages))
  /\ (pc = "save_write" /\ lastOp = "completed") =>
       /\ IsPrefix(Record(saveStartFile), Serializable(messages))
       /\ messages[Len(messages)].type = "AI"
       /\ messages[Len(messages) - 1] = HumanMessage(request.question)
       /\ OnlyOpenUserTurns(messages, Len(Record(saveStartFile)) + 1,
                            Len(messages) - 2)

\* a list of role / content pairs in which every assistant message comes
\* right after a user message and the assistant messages are not more than
\* the user messages
Alternates(l) ==
  /\ \A i \in 1..Len(l) :
       l[i].role = "assistant" => (i > 1 /\ l[i-1].role = "user")
  /\ l # <<>> => l[1].role = "user"
  /\ Cardinality({ i \in 1..Len(l) : l[i].role = "assistant" })
       <= Cardinality({ i \in 1..Len(l) : l[i].role = "user" })

\* two user messages in a row at i, i + 1 exactly when the submit of
\* message i failed
DoubledWhereFailed(l) ==
  \A i \in 1..(Len(l) - 1) :
    (l[i].role = "user" /\ l[i+1].role = "user") <=> i \in failedTurns

C19_EmptyAnswer ==
  (lastOp = "completed" /\ frags = <<>>) =>
    /\ ~errorShown
    /\ messages = pre \o << HumanMessage(request.question), AIMessage(<<>>) >>
    /\ saveArg = Serializable(pre)
                   \o << Dict("user", request.question), Dict("assistant", <<>>) >>
    /\ pc \in {"idle", "save_write"}
    /\ saveStatus \in {"writing", "ok", "failed"}
    /\ (pc = "idle" /\ saveStatus = "ok") => Record(file) = saveArg

\* an empty answer saved on top of a stored history
C19_Witness ==
  /\ lastOp = "completed"
  /\ saveStatus = "ok"
  /\ frags = <<>>
  /\ pc = "idle"
  /\ pre # <<>>
  /\ Len(Record(file)) = Len(pre) + 2
  /\ Record(file)[Len(pre) + 2] = Dict("assistant", <<>>)

(* ---------------- a second session on the same file ---------------- *)
\* what the provider answers in the second session
OtherAnswers == { <<"z">> }

\* first run of the second session
OtherHydrate ==
  /\ ~other.hydrated
  /\ other' = [hydrated |-> TRUE,
               msgs |-> Clean(load_history(file, perm)),
               saved |-> <<>>]
  /\ UNCHANGED << file, perm, pc, messages, full_response, shown, request,
                  errorShown, log, pending, saveArg, saveStatus, saveStartFile,
                  lastOp, pre, preFile, frags, partials, crashedInSave, unsaved,
                  ops, api_key, tracked, failedTurns, lastSaver >>

\* a whole exchange of the second session: user turn, answer, save_history
\* of its own list.  The save fails, and only prints, when the first
\* session is in the middle of its dump (the file is a cut document then)
OtherExchange(q, c) ==
  /\ other.hydrated
  /\ ops < MaxOps
  /\ ops' = ops + 1
  /\ LET msgs == Append(AppendUser(other.msgs, q), AIMessage(c))
         r == save_prepare(file, perm, Serializable(msgs))
     IN IF r.ok
        THEN /\ file' = FileOf(r.text)
             /\ other' = [other EXCEPT !.msgs = msgs, !.saved = Serializable(msgs)]
             /\ lastSaver' = "B"
        ELSE /\ file' = file
             /\ other' = [other EXCEPT !.msgs = msgs]
             /\ lastSaver' = lastSaver
  /\ UNCHANGED << perm, pc, messages, full_response, shown, request,
                  errorShown, log, pending, saveArg, saveStatus, saveStartFile,
                  lastOp, pre, preFile, frags, partials, crashedInSave, unsaved,
                  api_key, tracked, failedTurns >>

NextTwo ==
  \/ Hydrate
  \/ Clear
  \/ \E q \in Utterances : Submit(q)
  \/ \E c \in Fragments : Fragment(c)
  \/ StreamError
  \/ StreamComplete
  \/ SaveWrite
  \/ OtherHydrate
  \/ \E q \in Utterances, c \in OtherAnswers : OtherExchange(q, c)

SpecTwo == InitKey /\ [][NextTwo]_vars

\* C20: two sessions of the same user on one file, each hydrated once and
\* each saving its own whole list: whenever no dump is in progress the
\* persisted record is exactly the list the session that saved last gave
\* to save_history, which is the beginning of that session's own list; it
\* is never that list with the other session's exchanges added.
C20_LastSaverWins ==
  pc # "save_write" =>
    /\ lastSaver = "A" =>
         /\ Record(file) = saveArg
         /\ IsPrefix(saveArg, Serializable(messages))
    /\ lastSaver = "B" =>
         /\ Record(file) = other.saved
         /\ IsPrefix(other.saved, Serializable(other.msgs))

\* the second session saved an exchange after the first one was hydrated;
\* the first one then completed an exchange of its own and saved: the
\* record holds none of the second session's answers
C20_Witness ==
  /\ lastSaver = "A"
  /\ pc = "idle"
  /\ lastOp = "completed"
  /\ other.saved # <<>>
  /\ ~IsPrefix(other.saved, Record(file))
  /\ Record(file) = Serializable(messages)
  /\ \A i \in 1..Len(Record(file)) :
       Record(file)[i] # Dict("assistant", <<"z">>)

====
